---- MODULE Spec2Model ----
(***************************************************************************)
(* Playback and time-synchronisation layer of the UX Auditor dashboard:    *)
(* the VideoPlayer component (src/components/player/VideoPlayer.tsx), the  *)
(* replay engine instances it drives, and the Playback Cursor owned by the *)
(* hosting page (specification Spec); and the hosting page with its        *)
(* uploader, its analysis request and the authenticated fetch helper       *)
(* behind the proxy routes (specification PageSpec).                       *)
(*                                                                         *)
(* A handler, the re-render its state updates cause and the effects of     *)
(* that render are one step.  Time is counted in abstract units; the speed *)
(* multiplier m is stored as the integer 2*m so that 0.5x is 1.            *)
(***************************************************************************)
EXTENDS Integers, Sequences, FiniteSets, TLC

\* ---------------------------------------------------------------- bounds
MaxDur == 2
MaxEngines == 2
Overshoot == 1
MaxUploads == 2
MaxInFlight == 2
MaxClock == 2

\* ------------------------------------------------------------- constants
None == 0
SliderFallbackMax == 100

VARIABLES
  currentTime,     \* hosting page: the Playback Cursor
  mounted,         \* the VideoPlayer component is mounted
  events,          \* props.events: the timestamps of the recorded events
  playerInstance,  \* state: index of the engine in use, None when null
  isPlaying,       \* state: visible play state
  speed,           \* state: 2 * multiplier shown by the control surface
  duration,        \* state: session duration
  intervals,       \* active setInterval timers, each with its closure
  intervalId,      \* intervalId of the current time-sync effect, None if unset
  engines,         \* every replay engine instance constructed so far
  calls,           \* the calls made by the last handler, in program order
  endPauses        \* pause commands sent by poll ticks since isPlaying last rose

vars == <<currentTime, mounted, events, playerInstance, isPlaying, speed,
          duration, intervals, intervalId, engines, calls, endPauses>>

\* The rest of the hosting page (DashboardPage), the FileUploader it shows
\* while no recording is loaded, and the NextAuth session read by the
\* authenticated fetch helper.
VARIABLES
  sessionUuid,     \* page: uuid of the loaded session, None when ""
  insights,        \* page: None when [], else the session the annotations are of
  logs,            \* page: None when [], else the session the telemetry is of
  isProcessing,    \* page: pending flag of the analysis operation
  errorMessage,    \* page: analysis error shown, "" when none
  inFlight,        \* analysis requests not yet settled, per session uuid
  uploadState,     \* uploader: idle, validating, uploading, success or error
  uploadError,     \* uploader: error message shown, "" when none
  reading,         \* uploader: content of the file the FileReader is reading
  ingest,          \* uploader: contents of the /api/ingest requests not yet settled
  nextUuid,        \* backend: the uuid the next ingested session receives
  session          \* NextAuth session: [present, accessToken]

pageOnly == <<sessionUuid, insights, logs, isProcessing, errorMessage,
              inFlight, uploadState, uploadError, reading, ingest, nextUuid,
              session>>

playerOnly == <<mounted, playerInstance, isPlaying, speed, duration,
                intervals, intervalId, engines, endPauses>>

\* What the panels and the layout are computed from, and the NextAuth token
\* with the last decisions taken on it.
VARIABLES
  annotations,     \* page: the annotation list, as a set of [timestamp, boundingBox]
  psychometrics,   \* page: the scores of the analysis, 0-100
  narrative,       \* page: the narrative is a non-empty string
  intentAnalysis,  \* page: the intent analysis is not null
  wrapper,         \* player: clientWidth and clientHeight of the wrapper element
  video,           \* player: videoW and videoH of the loaded recording
  playerState,     \* player: the layout stored by updateDimensions
  jwt,             \* NextAuth: the token kept in the session cookie
  clock,           \* Date.now(), in token lifetimes
  proxied,         \* the last request seen by the route protection and its outcome
  fetched          \* the last call of authenticatedFetch and its outcome

viewOnly == <<annotations, psychometrics, narrative, intentAnalysis,
               wrapper, video, playerState>>

authOnly == <<jwt, clock, proxied, fetched>>

notPlayer == <<pageOnly, viewOnly, authOnly>>

notPage == <<playerOnly, viewOnly, authOnly>>

allVars == <<vars, pageOnly, viewOnly, authOnly>>

Min(a, b) == IF a <= b THEN a ELSE b

\* ------------------------------------------------------------ recordings
\* A recording is an ordered sequence of event timestamps; <<>> is "no events".
Sessions == {<<>>, <<1>>, <<1, 1 + MaxDur>>}

\* totalTime = (lastEvent?.timestamp || 0) - (firstEvent?.timestamp || 0)
TotalTime(ev) == ev[Len(ev)] - ev[1]

\* ---------------------------------------------------------- replay engine
\* The engine is a third-party object reached through play, pause, goto,
\* setSpeed, getCurrentTime and the 'ui-update-player-state' notification.
\* queue holds the notifications it has emitted and not yet dispatched;
\* autoplay is the pending 500 ms timeout set when it was constructed.
NewEngine(ev) ==
  [total |-> TotalTime(ev), time |-> 0, state |-> "paused", speed |-> 2,
   queue |-> <<>>, autoplay |-> TRUE]

EngPlay(e) ==
  IF e.state = "playing" THEN e
  ELSE [e EXCEPT !.state = "playing", !.queue = Append(@, "playing")]

EngPause(e) ==
  IF e.state = "paused" THEN e
  ELSE [e EXCEPT !.state = "paused", !.queue = Append(@, "paused")]

\* goto(t) moves the engine clock; "goto() as vezes pausa a reproducao".
EngGoto(e, t, pauses) ==
  LET moved == [e EXCEPT !.time = Min(t, e.total + Overshoot)]
  IN  IF pauses THEN EngPause(moved) ELSE moved

EngSetSpeed(e, s) == [e EXCEPT !.speed = s]

GetCurrentTime(e) == e.time

\* An instance the component has replaced: its listener and its timeout stay
\* registered, nothing calls its methods or reads its clock any more, so
\* only its play state, notifications and timeout are followed.
Detached(e) == [e EXCEPT !.total = 0, !.time = 0, !.speed = 2]

\* Notifications are dispatched before the next timer or input is handled.
Quiet == \A i \in DOMAIN engines : engines[i].queue = <<>>

\* One call made by a handler: an engine method (eng is the instance), or
\* onTimeUpdate / a state setter of the component (eng is None).
Call(op, arg, eng) == [op |-> op, arg |-> arg, eng |-> eng]

EngineOps == {"play", "pause", "goto", "engine.setSpeed"}

\* The engine after the calls cs addressed to it, in order.
RECURSIVE RunCalls(_, _, _)
RunCalls(e, cs, pauses) ==
  IF cs = <<>> THEN e
  ELSE LET c == Head(cs)
           next == CASE c.op = "play" -> EngPlay(e)
                     [] c.op = "pause" -> EngPause(e)
                     [] c.op = "goto" -> EngGoto(e, c.arg, pauses)
                     [] c.op = "engine.setSpeed" -> EngSetSpeed(e, c.arg)
                     [] OTHER -> e
       IN  RunCalls(next, Tail(cs), pauses)

CallsTo(cs, i) ==
  LET Mine(c) == c.eng = i /\ c.op \in EngineOps IN SelectSeq(cs, Mine)

\* The argument of the last call of op in cs, or default when there is none.
LastArg(cs, op, default) ==
  LET ks == {k \in 1..Len(cs) : cs[k].op = op}
  IN  IF ks = {} THEN default
      ELSE cs[CHOOSE k \in ks : \A j \in ks : j <= k].arg

Count(cs, op) == Cardinality({k \in 1..Len(cs) : cs[k].op = op})

\* ----------------------------------------------------- time-sync effect
\* A cleanup that leaves the interval running.
ClearIntervalKept(ivs, id) == ivs

ClearInterval(ivs, id) == {iv \in ivs : iv.id # id}

FreshId(ivs) ==
  CHOOSE i \in 1..(Cardinality(ivs) + 1) :
    /\ \A iv \in ivs : iv.id # i
    /\ \A j \in 1..(i - 1) : \E iv \in ivs : iv.id = j

\* A dependency list without isPlaying.
DepsChangedNoPlaying(ip, pi, d) ==
  <<pi, d>> # <<playerInstance, duration>>

\* The dependency list [isPlaying, playerInstance, duration].
DepsChanged(ip, pi, d) ==
  <<ip, pi, d>> # <<isPlaying, playerInstance, duration>>

\* Cleanup of the previous run, then the body of the effect.
TimeSyncEffect(ivs, id, ip, pi, d) ==
  LET cleaned == ClearInterval(ivs, id)
  IN  IF ip /\ pi # None
      THEN LET new == FreshId(cleaned)
           IN  [intervals |-> cleaned \cup {[id |-> new, player |-> pi, duration |-> d]},
                intervalId |-> new]
      ELSE [intervals |-> cleaned, intervalId |-> None]

\* Re-render with the new state values, then run the effects whose
\* dependencies changed.  pauses is the number of pause commands the step's
\* poll tick sent.
Commit(ip, pi, d, pauses) ==
  /\ isPlaying' = ip
  /\ playerInstance' = pi
  /\ duration' = d
  /\ LET r == IF DepsChanged(ip, pi, d)
              THEN TimeSyncEffect(intervals, intervalId, ip, pi, d)
              ELSE [intervals |-> intervals, intervalId |-> intervalId]
     IN  /\ intervals' = r.intervals
         /\ intervalId' = r.intervalId
  /\ endPauses' = IF ~isPlaying /\ ip THEN 0 ELSE endPauses + pauses

\* Run the calls of one handler on the engines engs: engine methods act on
\* their instance, onTimeUpdate and the setters on the state, and the
\* component re-renders.
Exec(op, cs, pauses, engs) ==
  /\ calls' = cs
  /\ engines' = [i \in DOMAIN engs |->
                   RunCalls(engs[i], CallsTo(cs, i), pauses)]
  /\ currentTime' = LastArg(cs, "onTimeUpdate", currentTime)
  /\ speed' = LastArg(cs, "setSpeed", speed)
  /\ LET ip == LastArg(cs, "setIsPlaying", IF isPlaying THEN 1 ELSE 0) = 1
     IN  Commit(ip, playerInstance, duration,
                IF op = "tick" THEN Count(cs, "pause") ELSE 0)
  /\ UNCHANGED <<mounted, events>>
  /\ UNCHANGED notPlayer

\* No file is being read.
NoFile == [kind |-> "none", json |-> <<>>]

\* The page state the analysis and upload flows work on, as useState
\* initialises it; the user is signed in when the dashboard is served.
PageIdle ==
  /\ sessionUuid = None
  /\ insights = None
  /\ logs = None
  /\ isProcessing = FALSE
  /\ errorMessage = ""
  /\ inFlight = [u \in 1..MaxUploads |-> 0]
  /\ uploadState = "idle"
  /\ uploadError = ""
  /\ reading = NoFile
  /\ ingest = <<>>
  /\ nextUuid = 1
  /\ session = [present |-> TRUE, accessToken |-> 1]

\* A number of the layout: JavaScript's number, kept exact as a fraction in
\* lowest terms with a positive denominator.
RECURSIVE GCD(_, _)
GCD(a, b) == IF b = 0 THEN a ELSE GCD(b, a % b)

Abs(x) == IF x < 0 THEN -x ELSE x

Frac(n, d) ==
  LET g == GCD(Abs(n), Abs(d))
      sgn == IF d < 0 THEN -1 ELSE 1
  IN [num |-> sgn * (n \div g), den |-> sgn * (d \div g)]

Whole(n) == [num |-> n, den |-> 1]

\* psychometrics is null until an analysis has answered.
NoPsychometrics ==
  [present |-> FALSE, frustration_score |-> 0, confusion_score |-> 0]

\* useState of the annotation list, the scores and the layout; the wrapper
\* element and the recording's viewport before anything is laid out.
ViewIdle ==
  /\ annotations = {}
  /\ psychometrics = NoPsychometrics
  /\ narrative = FALSE
  /\ intentAnalysis = FALSE
  /\ wrapper = [clientWidth |-> 0, clientHeight |-> 0]
  /\ video = [videoW |-> 0, videoH |-> 0]
  /\ playerState = [width |-> 0, height |-> 0, scale |-> Whole(1),
                    marginLeft |-> Whole(0), marginTop |-> Whole(0)]

\* No token, no request seen, no fetch made.
NoToken ==
  [present |-> FALSE, accessToken |-> 0, refreshToken |-> 0, expiresAt |-> 0,
   error |-> ""]

NoRequest ==
  [path |-> <<>>, query |-> "", auth |-> FALSE, by |-> "", matched |-> FALSE,
   outcome |-> "", callbackUrl |-> [path |-> <<>>, query |-> ""]]

NoFetch ==
  [called |-> FALSE, throwOnError |-> FALSE, backend |-> 0, body |-> "",
   thrown |-> FALSE, status |-> 0, message |-> "", data |-> FALSE]

AuthIdle ==
  /\ jwt = NoToken
  /\ clock = 0
  /\ proxied = NoRequest
  /\ fetched = NoFetch

Init ==
  /\ currentTime = 0
  /\ mounted = FALSE
  /\ events = <<>>
  /\ playerInstance = None
  /\ isPlaying = FALSE
  /\ speed = 2
  /\ duration = 0
  /\ intervals = {}
  /\ intervalId = None
  /\ engines = <<>>
  /\ calls = <<>>
  /\ endPauses = 0
  /\ PageIdle
  /\ ViewIdle
  /\ AuthIdle

\* ------------------------------------------------- engine construction
\* The initialisation effect, run on mount and whenever props.events is a
\* new array: nothing without events, otherwise it stores the duration,
\* constructs an engine, registers the state listener, stores the instance
\* and arms the delayed autoplay.  Its cleanup only disconnects the resize
\* observer, so earlier instances stay as they are.
InitPlayerEffect(ev) ==
  /\ events' = ev
  /\ IF ev = <<>>
     THEN /\ engines' = engines
          /\ calls' = <<>>
          /\ Commit(isPlaying, playerInstance, duration, 0)
     ELSE /\ engines' = Append([i \in DOMAIN engines |-> Detached(engines[i])],
                               NewEngine(ev))
          /\ calls' = <<Call("setDuration", TotalTime(ev), None),
                        Call("setPlayerInstance", Len(engines) + 1, None)>>
          /\ Commit(isPlaying, Len(engines) + 1, TotalTime(ev), 0)
  /\ UNCHANGED notPlayer

\* The hosting page renders the player for a recording.
MountPlayer(ev) ==
  /\ ~mounted /\ Quiet
  /\ ev # <<>> => Len(engines) < MaxEngines
  /\ mounted' = TRUE
  /\ InitPlayerEffect(ev)
  /\ UNCHANGED <<currentTime, speed>>

\* The parent passes a new recording to the mounted player.
EventsChange(ev) ==
  /\ mounted /\ Quiet
  /\ ev # <<>>
  /\ Len(engines) < MaxEngines
  /\ InitPlayerEffect(ev)
  /\ UNCHANGED <<currentTime, mounted, speed>>

\* resetSession, for the state of the page other than events and
\* currentTime: the lists, the uuid, the error and the pending flag are
\* cleared; requests already sent are not touched.  The uploader mounts
\* with its initial state.
ResetPage ==
  /\ sessionUuid' = None
  /\ insights' = None
  /\ logs' = None
  /\ errorMessage' = ""
  /\ isProcessing' = FALSE
  /\ UNCHANGED <<inFlight, uploadState, uploadError, reading, ingest,
                 nextUuid, session>>

\* resetSession of the hosting page: the cursor returns to 0 and the player
\* is unmounted, which runs the cleanup of the time-sync effect and drops
\* the component state.  The engines of the unmounted player leave the
\* model: their listener and timeout only call setters of the unmounted
\* component, which have no effect.
ResetSession ==
  /\ mounted /\ Quiet
  /\ calls' = <<Call("setCurrentTime", 0, None)>>
  /\ currentTime' = 0
  /\ mounted' = FALSE
  /\ events' = <<>>
  /\ intervals' = ClearInterval(intervals, intervalId)
  /\ intervalId' = None
  /\ isPlaying' = FALSE
  /\ playerInstance' = None
  /\ speed' = 2
  /\ duration' = 0
  /\ endPauses' = 0
  /\ engines' = <<>>
  /\ ResetPage
  /\ UNCHANGED <<viewOnly, authOnly>>

\* ------------------------------------------------------ control surface
Bit(b) == IF b THEN 1 ELSE 0

\* A toggle that waits for the engine's notification.
TogglePlayCallsNoSet(pi, ip) ==
  IF pi = None THEN <<>>
  ELSE <<Call(IF ip THEN "pause" ELSE "play", 0, pi)>>

TogglePlayCalls(pi, ip) ==
  IF pi = None THEN <<>>
  ELSE <<Call(IF ip THEN "pause" ELSE "play", 0, pi),
         Call("setIsPlaying", Bit(~ip), None)>>

TogglePlay ==
  /\ mounted /\ Quiet
  /\ Exec("togglePlay", TogglePlayCalls(playerInstance, isPlaying),
          FALSE, engines)

\* The range input: min 0, max = duration || 100.
SliderMax(d) == IF d # 0 THEN d ELSE SliderFallbackMax

\* The slider positions tried: the start, the middle and the end.
SeekTargets(d) == {0, SliderMax(d) \div 2, SliderMax(d)}

\* A seek that resumes before it jumps.
HandleSeekCallsPlayFirst(t, pi, ip) ==
  <<Call("onTimeUpdate", t, None)>> \o
  (IF pi = None THEN <<>>
   ELSE (IF ip THEN <<Call("play", 0, pi)>> ELSE <<>>) \o
        <<Call("goto", t, pi)>>)

HandleSeekCalls(t, pi, ip) ==
  <<Call("onTimeUpdate", t, None)>> \o
  (IF pi = None THEN <<>>
   ELSE <<Call("goto", t, pi)>> \o
        (IF ip THEN <<Call("play", 0, pi)>> ELSE <<>>))

HandleSeek(t, pauses) ==
  /\ mounted /\ Quiet
  /\ t \in SeekTargets(duration)
  /\ Exec("handleSeek", HandleSeekCalls(t, playerInstance, isPlaying),
          pauses, engines)

\* A cycle that leaves out 0.5x.
NextSpeedNoHalf(s) == IF s = 2 THEN 4 ELSE IF s = 4 THEN 8 ELSE 2

\* 1x -> 2x -> 4x -> 0.5x -> 1x, on the doubled multiplier.
NextSpeed(s) == IF s = 2 THEN 4 ELSE IF s = 4 THEN 8 ELSE IF s = 8 THEN 1 ELSE 2

CycleSpeedCalls(pi, s) ==
  IF pi = None THEN <<>>
  ELSE <<Call("engine.setSpeed", NextSpeed(s), pi),
         Call("setSpeed", NextSpeed(s), None)>>

CycleSpeed ==
  /\ mounted /\ Quiet
  /\ Exec("cycleSpeed", CycleSpeedCalls(playerInstance, speed),
          FALSE, engines)

\* A restart that leaves the visible state to the engine's notification.
RestartCallsNoSet(pi) ==
  IF pi = None THEN <<>>
  ELSE <<Call("goto", 0, pi), Call("play", 0, pi)>>

\* A restart that also publishes time 0 to the hosting page.
RestartCallsPublishes(pi) ==
  IF pi = None THEN <<>>
  ELSE <<Call("onTimeUpdate", 0, None), Call("goto", 0, pi),
         Call("play", 0, pi), Call("setIsPlaying", 1, None)>>

RestartCalls(pi) ==
  IF pi = None THEN <<>>
  ELSE <<Call("goto", 0, pi), Call("play", 0, pi),
         Call("setIsPlaying", 1, None)>>

Restart(pauses) ==
  /\ mounted /\ Quiet
  /\ Exec("restart", RestartCalls(playerInstance), pauses, engines)

\* ------------------------------------------------------ time-sync poller
\* The setInterval callback, with the playerInstance and duration of the
\* render that created it.
\* A tick that pauses the engine at the end but not the visible state.
TickCallsNoSet(iv, time) ==
  <<Call("onTimeUpdate", time, None)>> \o
  (IF iv.duration > 0 /\ time >= iv.duration
   THEN <<Call("pause", 0, iv.player)>>
   ELSE <<>>)

TickCalls(iv, time) ==
  <<Call("onTimeUpdate", time, None)>> \o
  (IF iv.duration > 0 /\ time >= iv.duration
   THEN <<Call("setIsPlaying", 0, None), Call("pause", 0, iv.player)>>
   ELSE <<>>)

Tick(iv) ==
  /\ Quiet
  /\ iv \in intervals
  /\ Exec("tick", TickCalls(iv, GetCurrentTime(engines[iv.player])),
          FALSE, engines)

\* ------------------------------------------------------ delayed autoplay
\* setTimeout(() => { try { player.play(); setIsPlaying(true) } catch ... }).
\* blocked: play() throws, which is logged.
\* An autoplay whose setIsPlaying(true) sits outside the try block.
AutoplayCallsSetOutsideTry(i, blocked) ==
  IF blocked THEN <<Call("console.warn", 0, None), Call("setIsPlaying", 1, None)>>
  ELSE <<Call("play", 0, i), Call("setIsPlaying", 1, None)>>

AutoplayCalls(i, blocked) ==
  IF blocked THEN <<Call("console.warn", 0, None)>>
  ELSE <<Call("play", 0, i), Call("setIsPlaying", 1, None)>>

\* Timeouts of equal delay fire in the order they were set.
AutoplayFires(i, blocked) ==
  /\ Quiet
  /\ i \in DOMAIN engines
  /\ engines[i].autoplay
  /\ \A j \in 1..(i - 1) : ~engines[j].autoplay
  /\ Exec("autoplay", AutoplayCalls(i, blocked), FALSE,
          [engines EXCEPT ![i].autoplay = FALSE])

\* ------------------------------------------------- engine notifications
\* The 'ui-update-player-state' listener: setIsPlaying(state === 'playing').
ListenerCalls(state) == <<Call("setIsPlaying", Bit(state = "playing"), None)>>

Notify(i) ==
  /\ i \in DOMAIN engines
  /\ engines[i].queue # <<>>
  /\ Exec("notify", ListenerCalls(Head(engines[i].queue)), FALSE,
          [engines EXCEPT ![i].queue = Tail(@)])

\* ------------------------------------------------- layout recomputation
\* updateDimensions, run by the ResizeObserver of a player that has events
\* and by the 100 ms timeout: it only stores the layout (setPlayerState).
UpdateDimensionsCalls == <<Call("setPlayerState", 0, None)>>

UpdateDimensions ==
  /\ mounted /\ Quiet
  /\ events # <<>>
  /\ Exec("updateDimensions", UpdateDimensionsCalls, FALSE, engines)

\* ------------------------------------------------------ engine progress
\* A playing engine moves its clock forward (followed for the instance in
\* use, the only one whose clock is read) ...
EngineAdvance(i) ==
  /\ Quiet
  /\ i \in DOMAIN engines
  /\ i = playerInstance
  /\ engines[i].state = "playing"
  /\ engines[i].time < engines[i].total + Overshoot
  /\ engines' = [engines EXCEPT ![i].time = @ + 1]
  /\ calls' = <<>>
  /\ UNCHANGED <<currentTime, mounted, events, playerInstance, isPlaying,
                 speed, duration, intervals, intervalId, endPauses>>
  /\ UNCHANGED notPlayer

\* ... and, having replayed its last event, pauses itself and reports it.
EngineFinish(i) ==
  /\ Quiet
  /\ i \in DOMAIN engines
  /\ engines[i].state = "playing"
  /\ i = playerInstance => engines[i].time >= engines[i].total
  /\ engines' = [engines EXCEPT ![i].state = "paused",
                                ![i].queue = Append(@, "ended")]
  /\ calls' = <<>>
  /\ UNCHANGED <<currentTime, mounted, events, playerInstance, isPlaying,
                 speed, duration, intervals, intervalId, endPauses>>
  /\ UNCHANGED notPlayer

Next ==
  \/ \E ev \in Sessions : MountPlayer(ev)
  \/ \E ev \in Sessions \ {<<>>} : EventsChange(ev)
  \/ ResetSession
  \/ TogglePlay
  \/ \E t \in SeekTargets(duration), pauses \in BOOLEAN : HandleSeek(t, pauses)
  \/ CycleSpeed
  \/ \E pauses \in BOOLEAN : Restart(pauses)
  \/ \E iv \in intervals : Tick(iv)
  \/ \E i \in 1..MaxEngines, blocked \in BOOLEAN : AutoplayFires(i, blocked)
  \/ \E i \in 1..MaxEngines : Notify(i)
  \/ UpdateDimensions
  \/ \E i \in 1..MaxEngines : EngineAdvance(i)
  \/ \E i \in 1..MaxEngines : EngineFinish(i)

Spec == Init /\ [][Next]_vars

TypeOK ==
  /\ mounted \in BOOLEAN /\ isPlaying \in BOOLEAN
  /\ playerInstance \in 0..Len(engines)
  /\ speed \in {1, 2, 4, 8}
  /\ Len(engines) <= MaxEngines

\* ======================================================================
\* Hosting page, uploader and authenticated requests
\* (src/app/auth/register/page.tsx, src/unnamed/part_001,
\*  src/README-AUTHENTICATION.md, the /api/ingest and
\*  /api/sessions/[uuid]/process routes)
\* ======================================================================

\* ------------------------------------------------------ NextAuth session
\* No session cookie, a session without accessToken, or a session with one
\* of two tokens.
SessionStates ==
  {[present |-> FALSE, accessToken |-> None]} \cup
  {[present |-> TRUE, accessToken |-> t] : t \in {None, 1, 2}}

\* What the backend does with a request: 0 is "cannot be reached", any
\* other number the HTTP status of its answer.
BackendAnswers == {0, 200, 401, 500, 502, 503}

\* An ok that also takes client errors for success.
OkBelow500(status) == status \in 200..499

\* response.ok
Ok(status) == status \in 200..299

\* ------------------------------------------- authenticated fetch helper
\* A helper that repeats a failed request once.
AuthenticatedFetchRetry(sess, endpoint, backend) ==
  IF ~sess.present \/ sess.accessToken = None
  THEN [calls |-> <<>>, ok |-> FALSE, status |-> 401,
        message |-> "unauthenticated"]
  ELSE [calls |-> IF Ok(backend)
                  THEN <<Call(endpoint, sess.accessToken, None)>>
                  ELSE <<Call(endpoint, sess.accessToken, None),
                         Call(endpoint, sess.accessToken, None)>>,
        ok |-> Ok(backend),
        status |-> backend,
        message |-> IF Ok(backend) THEN ""
                    ELSE IF backend = 0 THEN "network" ELSE "http"]

\* authenticatedFetch with the default throwOnError: without a session or
\* an accessToken it throws AuthenticatedFetchError(..., 401) and sends
\* nothing; otherwise it sends one request with Authorization: Bearer
\* <session.accessToken>, and throws the backend's status with its message
\* ("http"), or status 0 with "Erro de rede" ("network").
AuthenticatedFetch(sess, endpoint, backend) ==
  IF ~sess.present \/ sess.accessToken = None
  THEN [calls |-> <<>>, ok |-> FALSE, status |-> 401,
        message |-> "unauthenticated"]
  ELSE [calls |-> <<Call(endpoint, sess.accessToken, None)>>,
        ok |-> Ok(backend),
        status |-> backend,
        message |-> IF Ok(backend) THEN ""
                    ELSE IF backend = 0 THEN "network" ELSE "http"]

\* -------------------------------------------------------- proxy routes
\* POST /api/ingest: 401 when the helper's message says "nao autenticado",
\* otherwise the error's status, or 500 when that is 0.
IngestRoute(sess, backend) ==
  LET r == AuthenticatedFetch(sess, "POST backend/ingest", backend)
  IN  [calls |-> r.calls,
       status |-> IF r.ok THEN 200
                  ELSE IF r.message = "unauthenticated" THEN 401
                  ELSE IF r.status # 0 THEN r.status ELSE 500]

\* POST /api/sessions/[uuid]/process: every error is answered with 500.
ProcessRoute(sess, backend) ==
  LET r == AuthenticatedFetch(sess, "POST backend/process", backend)
  IN  [calls |-> r.calls, status |-> IF r.ok THEN 200 ELSE 500]

\* A client calls the process route.
ProcessRouteCall(backend) ==
  /\ calls' = ProcessRoute(session, backend).calls \o
              <<Call("respond /api/sessions/process",
                     ProcessRoute(session, backend).status, None)>>
  /\ UNCHANGED <<currentTime, events>>
  /\ UNCHANGED notPlayer
  /\ UNCHANGED notPage

\* The session ends, loses its token or is replaced by a new sign-in.
SessionChanges(s) ==
  /\ s \in SessionStates
  /\ s # session
  /\ session' = s
  /\ calls' = <<>>
  /\ UNCHANGED <<currentTime, events, sessionUuid, insights, logs,
                 isProcessing, errorMessage, inFlight, uploadState,
                 uploadError, reading, ingest, nextUuid>>
  /\ UNCHANGED notPage

\* ------------------------------------------------------------ uploader
\* A file: whether its MIME type or extension is JSON, and its content:
\* text that does not parse, a JSON object, or an array of events.
FileContents ==
  {[kind |-> k, json |-> <<>>] : k \in {"malformed", "object"}} \cup
  {[kind |-> "array", json |-> ev] : ev \in Sessions}

Files == [typeOk : BOOLEAN, content : FileContents]

\* A validation without the check for an empty array.
ValidateNoEmptyCheck(content) ==
  IF content.kind = "malformed" THEN "malformed"
  ELSE IF content.kind # "array" THEN "notArray"
  ELSE ""

\* JSON.parse, Array.isArray and json.length === 0: the error shown, ""
\* when the content is accepted.
Validate(content) ==
  IF content.kind = "malformed" THEN "malformed"
  ELSE IF content.kind # "array" THEN "notArray"
  ELSE IF Len(content.json) = 0 THEN "empty"
  ELSE ""

\* The uploader is rendered while the page has no events.
UploaderShown == events = <<>>

\* A gate that is closed only while the file is read.
UploaderBusyOnlyValidating == uploadState = "validating"

UploaderBusy == uploadState \in {"validating", "uploading"}

\* processFile up to reader.readAsText; the drop handlers are removed
\* while validating or uploading.
ProcessFile(f) ==
  /\ UploaderShown /\ ~UploaderBusy
  /\ f \in Files
  /\ IF ~f.typeOk
     THEN /\ uploadState' = "error"
          /\ uploadError' = "type"
          /\ reading' = reading
     ELSE /\ uploadState' = "validating"
          /\ uploadError' = ""
          /\ reading' = f.content
  /\ calls' = <<>>
  /\ UNCHANGED <<currentTime, events, sessionUuid, insights, logs,
                 isProcessing, errorMessage, inFlight, ingest, nextUuid,
                 session>>
  /\ UNCHANGED notPage

\* reader.onload: validation, then fetch('/api/ingest').
ReaderLoad ==
  /\ reading # NoFile
  /\ reading' = NoFile
  /\ IF Validate(reading) # ""
     THEN /\ uploadState' = "error"
          /\ uploadError' = Validate(reading)
          /\ ingest' = ingest
          /\ calls' = <<>>
     ELSE /\ uploadState' = "uploading"
          /\ uploadError' = uploadError
          /\ ingest' = Append(ingest, reading.json)
          /\ calls' = <<Call("POST /api/ingest", None, None)>>
  /\ UNCHANGED <<currentTime, events, sessionUuid, insights, logs,
                 isProcessing, errorMessage, inFlight, nextUuid, session>>
  /\ UNCHANGED notPage

\* reader.onerror
ReaderError ==
  /\ reading # NoFile
  /\ reading' = NoFile
  /\ uploadState' = "error"
  /\ uploadError' = "read"
  /\ calls' = <<>>
  /\ UNCHANGED <<currentTime, events, sessionUuid, insights, logs,
                 isProcessing, errorMessage, inFlight, ingest, nextUuid,
                 session>>
  /\ UNCHANGED notPage

\* How the browser's fetch of /api/ingest ends: the route answers; fetch
\* rejects with a TypeError whose message mentions "fetch"; it rejects with
\* another message; or the answer's body is not JSON (the sign-in page the
\* middleware redirects to), so that response.json() throws.
BrowserOutcomes == {"answered", "failedToFetch", "loadFailed", "notJson"}

\* The error the uploader shows for an answer that is not ok.
UploaderStatusError(status) ==
  IF status = 401 THEN "relogin"
  ELSE IF status = 502 \/ status = 503 THEN "unavailable"
  ELSE "http"

\* The error the uploader shows for a rejected fetch or a thrown parse.
UploaderThrownError(reach) ==
  IF reach = "failedToFetch" THEN "connectivity" ELSE "unexpected"

\* handleFileLoaded: events and uuid are stored, the lists and the error
\* are cleared; currentTime and isProcessing are left as they are.
HandleFileLoaded(ev, uuid) ==
  /\ events' = ev
  /\ sessionUuid' = uuid
  /\ logs' = None
  /\ insights' = None
  /\ errorMessage' = ""
  /\ UNCHANGED <<currentTime, isProcessing>>

\* The fetch of /api/ingest settles.  On success the uploader calls
\* onFileLoaded and is unmounted by the page, which drops its state.
IngestSettle(reach, backend) ==
  /\ ingest # <<>>
  /\ reach \in BrowserOutcomes
  /\ backend \in BackendAnswers
  /\ ingest' = Tail(ingest)
  /\ LET r == IngestRoute(session, backend)
         routed == IF reach = "answered"
                   THEN r.calls \o <<Call("respond /api/ingest", r.status, None)>>
                   ELSE <<>>
     IN  IF reach = "answered" /\ Ok(r.status)
         THEN /\ nextUuid <= MaxUploads
              /\ nextUuid' = nextUuid + 1
              /\ HandleFileLoaded(Head(ingest), nextUuid)
              /\ calls' = routed \o <<Call("onFileLoaded", nextUuid, None)>>
              /\ uploadState' = "idle"
              /\ uploadError' = ""
         ELSE /\ uploadState' = "error"
              /\ uploadError' = IF reach = "answered"
                                THEN UploaderStatusError(r.status)
                                ELSE UploaderThrownError(reach)
              /\ calls' = routed
              /\ UNCHANGED <<currentTime, events, sessionUuid, insights,
                             logs, isProcessing, errorMessage, nextUuid>>
  /\ UNCHANGED <<inFlight, reading, session>>
  /\ UNCHANGED notPage

\* clearError, the "Tentar novamente" button of the error state.
ClearError ==
  /\ UploaderShown
  /\ uploadState = "error"
  /\ uploadState' = "idle"
  /\ uploadError' = ""
  /\ calls' = <<>>
  /\ UNCHANGED <<currentTime, events, sessionUuid, insights, logs,
                 isProcessing, errorMessage, inFlight, reading, ingest,
                 nextUuid, session>>
  /\ UNCHANGED notPage

\* ------------------------------------------------------------ analysis
RECURSIVE Sum(_, _)
Sum(f, n) == IF n = 0 THEN 0 ELSE f[n] + Sum(f, n - 1)

\* Analysis requests not yet settled.
Pending == Sum(inFlight, MaxUploads)

\* The button is rendered when sessionUuid is set, beside the player, and
\* is disabled while isProcessing.
TriggerEnabled == events # <<>> /\ sessionUuid # None /\ ~isProcessing

\* triggerAnalysis up to the await.
TriggerAnalysis ==
  /\ TriggerEnabled
  /\ Pending < MaxInFlight
  /\ errorMessage' = ""
  /\ isProcessing' = TRUE
  /\ inFlight' = [inFlight EXCEPT ![sessionUuid] = @ + 1]
  /\ calls' = <<>>
  /\ UNCHANGED <<currentTime, events, sessionUuid, insights, logs,
                 uploadState, uploadError, reading, ingest, nextUuid,
                 session>>
  /\ UNCHANGED notPage

\* if (Array.isArray(data.x)) setX(data.x): the list of session u replaces
\* the list held, whatever session is loaded.
Apply(old, has, u) == IF has THEN u ELSE old

\* The awaited authenticatedPost of session u's request settles: the
\* response is mapped to the state, or the error message is stored, and
\* finally the pending flag is cleared.
AnalysisSettle(u, backend, hasInsights, hasActions) ==
  /\ u \in 1..MaxUploads
  /\ inFlight[u] > 0
  /\ backend \in BackendAnswers
  /\ inFlight' = [inFlight EXCEPT ![u] = @ - 1]
  /\ LET r == AuthenticatedFetch(session, "POST backend/process", backend)
     IN  /\ calls' = r.calls
         /\ IF r.ok
            THEN /\ insights' = Apply(insights, hasInsights, u)
                 /\ logs' = Apply(logs, hasActions, u)
                 /\ errorMessage' = errorMessage
            ELSE /\ errorMessage' = r.message
                 /\ UNCHANGED <<insights, logs>>
  /\ isProcessing' = FALSE
  /\ UNCHANGED <<currentTime, events, sessionUuid, uploadState, uploadError,
                 reading, ingest, nextUuid, session>>
  /\ UNCHANGED notPage

\* resetSession, with the player's own state left to Spec.
PageReset ==
  /\ events # <<>>
  /\ events' = <<>>
  /\ currentTime' = 0
  /\ calls' = <<Call("setCurrentTime", 0, None)>>
  /\ ResetPage
  /\ UNCHANGED notPage

\* onTimeUpdate={setCurrentTime}: the player publishes a time.
PageTimeUpdate(t) ==
  /\ events # <<>>
  /\ t \in 0..TotalTime(events)
  /\ t # currentTime
  /\ currentTime' = t
  /\ calls' = <<Call("onTimeUpdate", t, None)>>
  /\ UNCHANGED <<events>>
  /\ UNCHANGED notPlayer
  /\ UNCHANGED notPage

PageNext ==
  \/ \E f \in Files : ProcessFile(f)
  \/ ReaderLoad
  \/ ReaderError
  \/ \E reach \in BrowserOutcomes, backend \in BackendAnswers :
       IngestSettle(reach, backend)
  \/ ClearError
  \/ TriggerAnalysis
  \/ \E u \in 1..MaxUploads, backend \in BackendAnswers,
        hasInsights \in BOOLEAN, hasActions \in BOOLEAN :
       AnalysisSettle(u, backend, hasInsights, hasActions)
  \/ PageReset
  \/ \E t \in 0..MaxDur : PageTimeUpdate(t)
  \/ \E backend \in BackendAnswers : ProcessRouteCall(backend)
  \/ \E s \in SessionStates : SessionChanges(s)

PageSpec == Init /\ [][PageNext]_allVars

\* ======================================================================
\* Playback claims
\* ======================================================================
Loaded == mounted /\ events # <<>>

HasEngine == mounted /\ playerInstance # None

SeekStep(t) == \E pauses \in BOOLEAN : HandleSeek(t, pauses)

TickStep == \E iv \in intervals : Tick(iv)

\* C1: for every loaded session the Playback Cursor lies within
\* [0, duration], where duration is the last event timestamp minus the
\* first, sessions of duration 0 included.
C1_CursorWithinDuration ==
  Loaded => currentTime \in 0..TotalTime(events)

\* C2: once a poll tick has read a time >= duration it has paused the
\* visible state and the engine, and no later tick pauses again: between two
\* rises of the visible play state poll ticks send at most one pause
\* command, and after it the visible state is paused and no timer runs.
C2_EndPausesOnce ==
  /\ endPauses <= 1
  /\ endPauses = 1 => ~isPlaying /\ intervals = {}

C2_Witness ==
  /\ endPauses = 1
  /\ HasEngine /\ duration > 0
  /\ \E iv \in {[id |-> 1, player |-> playerInstance, duration |-> duration]} :
       calls = TickCalls(iv, GetCurrentTime(engines[playerInstance]))
  /\ GetCurrentTime(engines[playerInstance]) >= duration

\* C3: at most one polling timer is active at any moment, and it is the one
\* of the current effect run, bound to the current engine instance and
\* duration.
C3_AtMostOneInterval ==
  /\ Cardinality(intervals) <= 1
  /\ \A iv \in intervals :
       /\ iv.id = intervalId
       /\ iv.player = playerInstance
       /\ iv.duration = duration

C3_Witness ==
  /\ Cardinality(intervals) = 1
  /\ Len(engines) = MaxEngines
  /\ playerInstance = MaxEngines
  /\ engines[1].state = "playing"

\* C4: while the visible play state is paused, or there is no engine
\* instance, or the player has been torn down, no polling timer is active
\* (so no poll tick can write the cursor).
C4_NoPollingWhenIdle ==
  (~isPlaying \/ playerInstance = None \/ ~mounted) => intervals = {}

C4_Witness ==
  /\ HasEngine /\ ~isPlaying
  /\ calls = TogglePlayCalls(playerInstance, TRUE)
  /\ intervals = {}

\* C5: with a session loaded, a seek to a target beyond the session
\* duration sets the Playback Cursor to exactly the duration.
C5_SeekPastEndClamps ==
  [][\A t \in SeekTargets(duration) :
       (Loaded /\ t > duration /\ SeekStep(t)) => currentTime' = duration]_vars

\* C6: with an engine present, seek(t) publishes t, then commands goto(t),
\* then play if and only if the visible state was playing; a playing
\* session is playing on the engine afterwards even when goto paused it, and
\* a paused visible state stays paused.
C6_SeekPublishesThenJumps ==
  [][\A t \in SeekTargets(duration) :
       (SeekStep(t) /\ playerInstance # None) =>
         /\ currentTime' = t
         /\ Len(calls') >= 2
         /\ calls'[1] = Call("onTimeUpdate", t, None)
         /\ calls'[2] = Call("goto", t, playerInstance)
         /\ isPlaying => /\ Len(calls') = 3
                         /\ calls'[3] = Call("play", 0, playerInstance)
                         /\ engines'[playerInstance].state = "playing"
         /\ ~isPlaying => /\ Len(calls') = 2
                          /\ ~isPlaying']_vars

C6_Witness ==
  /\ HasEngine /\ isPlaying
  /\ \E t \in SeekTargets(duration) :
       /\ t > 0
       /\ calls = HandleSeekCalls(t, playerInstance, TRUE)
       /\ currentTime = t
  /\ engines[playerInstance].queue = <<"paused", "playing">>
  /\ engines[playerInstance].state = "playing"

\* C7: togglePlay with an engine present sends pause when the visible state
\* is playing and play when it is paused, and flips the visible state in the
\* same step, while the notification of that command is still undelivered;
\* without an engine it changes neither the state nor any engine.
C7_ToggleOptimistic ==
  [][TogglePlay =>
       IF playerInstance = None
       THEN UNCHANGED <<currentTime, mounted, events, playerInstance,
                        isPlaying, speed, duration, intervals, intervalId,
                        engines>>
       ELSE LET target == IF isPlaying THEN "paused" ELSE "playing"
            IN  /\ calls'[1] = Call(IF isPlaying THEN "pause" ELSE "play",
                                    0, playerInstance)
                /\ isPlaying' = ~isPlaying
                /\ engines'[playerInstance].state = target
                /\ engines'[playerInstance].queue =
                     IF engines[playerInstance].state = target
                     THEN <<>> ELSE <<target>>]_vars

C7_Witness ==
  /\ HasEngine /\ isPlaying
  /\ calls = TogglePlayCalls(playerInstance, FALSE)
  /\ engines[playerInstance].queue = <<"playing">>
  /\ intervals # {}

\* C8: restart with an engine present commands goto(0) and then play, and
\* sets the visible state to playing whatever it was; the engine is at time
\* zero and playing and a polling timer is active afterwards.
C8_RestartPlays ==
  [][\A pauses \in BOOLEAN :
       (Restart(pauses) /\ playerInstance # None) =>
         /\ Len(calls') = 3
         /\ calls'[1] = Call("goto", 0, playerInstance)
         /\ calls'[2] = Call("play", 0, playerInstance)
         /\ isPlaying'
         /\ engines'[playerInstance].time = 0
         /\ engines'[playerInstance].state = "playing"
         /\ Cardinality(intervals') = 1]_vars

C8_Witness ==
  /\ HasEngine /\ isPlaying
  /\ calls = RestartCalls(playerInstance)
  /\ engines[playerInstance].queue = <<"playing">>
  /\ GetCurrentTime(engines[playerInstance]) = 0
  /\ currentTime > 0
  /\ endPauses = 0
  /\ intervals # {}

\* C9: cycleSpeed moves the multiplier along 1 -> 2 -> 4 -> 0.5 -> 1 and
\* applies the new multiplier to the engine; four invocations in a row
\* return it to its starting value.
C9_SpeedCycle ==
  [][(CycleSpeed /\ playerInstance # None) =>
       /\ <<speed, speed'>> \in {<<2, 4>>, <<4, 8>>, <<8, 1>>, <<1, 2>>}
       /\ engines'[playerInstance].speed = speed'
       /\ NextSpeed(NextSpeed(NextSpeed(speed'))) = speed]_vars

C9_Witness ==
  /\ HasEngine
  /\ speed = 2
  /\ calls = CycleSpeedCalls(playerInstance, 1)
  /\ engines[playerInstance].speed = 2

\* C10: once every pending engine notification and delayed autoplay has
\* been handled, the visible play state equals the play state of the engine
\* in use.
NoAutoplayPending == \A i \in DOMAIN engines : ~engines[i].autoplay

C10_VisibleMirrorsEngine ==
  (HasEngine /\ Quiet /\ NoAutoplayPending) =>
    (isPlaying <=> engines[playerInstance].state = "playing")

\* C11: once the event sequence has changed, an instance that is no longer
\* the one in use receives no further command (its delayed autoplay
\* included) and its notifications no longer change the visible play state.
Replaced(i) == mounted /\ i \in DOMAIN engines /\ i # playerInstance

C11_PreviousEngineTornDown ==
  [][\A i \in 1..MaxEngines : Replaced(i) =>
        /\ CallsTo(calls', i) = <<>>
        /\ Notify(i) => isPlaying' = isPlaying]_vars

\* C12: a delayed autoplay whose play() throws is only logged: the visible
\* play state stays paused, no polling timer is started and no state setter
\* or cursor update is called.
BlockedAutoplayStep == \E i \in 1..MaxEngines : AutoplayFires(i, TRUE)

C12_BlockedAutoplaySilent ==
  [][(BlockedAutoplayStep /\ ~isPlaying) =>
        /\ ~isPlaying'
        /\ intervals' = {} /\ intervalId' = None
        /\ calls' = <<Call("console.warn", 0, None)>>
        /\ \A i \in DOMAIN engines : engines'[i].state = engines[i].state]_vars

C12_Witness ==
  /\ HasEngine /\ ~isPlaying /\ intervals = {}
  /\ calls = <<Call("console.warn", 0, None)>>
  /\ ~engines[playerInstance].autoplay
  /\ engines[playerInstance].state = "paused"

\* C13 (as stated): the Playback Cursor is written only by the poll tick and
\* by seek; every other operation, session reset included, leaves it
\* unchanged.
CursorWriterStep == TickStep \/ \E t \in SeekTargets(duration) : SeekStep(t)

C13_OnlyPollerAndSeekWrite ==
  [][currentTime' # currentTime => CursorWriterStep]_vars

\* C13 (amended): the Playback Cursor is written only by the poll tick, by
\* seek and by session reset, which returns it to 0; togglePlay, cycleSpeed,
\* restart, engine notifications, delayed autoplay, layout recomputation
\* and file load leave it unchanged.
C13_CursorWriters ==
  [][/\ currentTime' # currentTime => (CursorWriterStep \/ ResetSession)
     /\ ResetSession => currentTime' = 0]_vars

C13_Witness ==
  /\ ~mounted /\ currentTime = 0
  /\ calls = <<Call("setCurrentTime", 0, None)>>

\* ======================================================================
\* Page, upload and authentication claims (checked under PageSpec)
\* ======================================================================

\* C14: the annotation and telemetry lists are non-empty only while they
\* hold the analysis response of the session now loaded: after a reset or
\* a new file they stay empty until a response for the newly loaded
\* session arrives, whatever earlier request is answered meanwhile.
C14_ListsOfLoadedSession ==
  /\ insights # None => insights = sessionUuid
  /\ logs # None => logs = sessionUuid

\* C15: whenever an analysis request is in flight the pending flag is set
\* and the trigger control is disabled, so that at most one analysis
\* request is in flight.
C15_PendingWhileInFlight ==
  /\ Pending > 0 => (isProcessing /\ ~TriggerEnabled)
  /\ Pending <= 1

\* C16: while an analysis request is in flight and none completes, the
\* processing state stays set; it is cleared by the step in which a request
\* completes, with success or with failure.
C16_ProcessingUntilCompletion ==
  [][/\ (isProcessing /\ Pending > 0 /\ Pending' = Pending) => isProcessing'
     /\ Pending' < Pending => ~isProcessing']_allVars

\* C17: a file whose content does not parse, is JSON but not an array, or
\* is an empty array is rejected when it has been read: the upload state
\* becomes error with a message, no request is sent and onFileLoaded is not
\* called.
Rejected(c) ==
  \/ c.kind \in {"malformed", "object"}
  \/ c.kind = "array" /\ c.json = <<>>

C17_InvalidUploadRejected ==
  [][(ReaderLoad /\ Rejected(reading)) =>
        /\ uploadState' = "error"
        /\ uploadError' \in {"malformed", "notArray", "empty"}
        /\ calls' = <<>>
        /\ ingest' = ingest /\ reading' = NoFile
        /\ events' = events /\ sessionUuid' = sessionUuid]_allVars

C17_Witness ==
  /\ UploaderShown
  /\ uploadState = "error" /\ uploadError = "empty"
  /\ reading = NoFile /\ ingest = <<>> /\ calls = <<>>
  /\ sessionUuid = None

\* C18: a failed ingestion or analysis request is shown as exactly one of
\* four classes: authentication failure, backend unavailability, generic
\* HTTP failure or connectivity failure; a missing session or a 401 is
\* shown as authentication failure and a 502 or 503 as unavailability.
FourClasses == {"authentication", "unavailable", "http", "connectivity"}

\* The class of a message of the uploader and of the analysis error banner.
UploadClass(msg) ==
  CASE msg = "relogin" -> "authentication"
    [] msg \in {"unavailable", "http", "connectivity"} -> msg
    [] OTHER -> "none of the four"

AnalysisClass(msg) ==
  CASE msg = "unauthenticated" -> "authentication"
    [] msg = "http" -> "http"
    [] msg = "network" -> "connectivity"
    [] OTHER -> "none of the four"

Unauthenticated == ~session.present \/ session.accessToken = None

ClassMatches(class, backend) ==
  /\ class \in FourClasses
  /\ (Unauthenticated \/ backend = 401) => class = "authentication"
  /\ (~Unauthenticated /\ backend \in {502, 503}) => class = "unavailable"

C18_FailureClasses ==
  [][/\ \A reach \in BrowserOutcomes, backend \in BackendAnswers :
          (IngestSettle(reach, backend) /\ uploadState' = "error") =>
             /\ UploadClass(uploadError') \in FourClasses
             /\ reach = "answered" =>
                   ClassMatches(UploadClass(uploadError'), backend)
     /\ \A u \in 1..MaxUploads, backend \in BackendAnswers,
           hasInsights \in BOOLEAN, hasActions \in BOOLEAN :
          (/\ AnalysisSettle(u, backend, hasInsights, hasActions)
           /\ ~AuthenticatedFetch(session, "POST backend/process", backend).ok)
          => ClassMatches(AnalysisClass(errorMessage'), backend)]_allVars

\* C19: requests are sent only on behalf of a user trigger, one per trigger:
\* an ingestion request only by the load of the one file a processFile
\* call handed to the reader, an analysis request only by triggerAnalysis,
\* and a settling request, failed or not, reaches the backend at most once
\* and starts no other request.
RequestOps == {"POST /api/ingest", "POST backend/ingest", "POST backend/process"}

Requests(cs) == Cardinality({k \in 1..Len(cs) : cs[k].op \in RequestOps})

C19_NoAutomaticRetry ==
  [][/\ reading' \notin {reading, NoFile} => \E f \in Files : ProcessFile(f)
     /\ Len(ingest') > Len(ingest) =>
           (ReaderLoad /\ Len(ingest') = Len(ingest) + 1)
     /\ Pending' > Pending => (TriggerAnalysis /\ Pending' = Pending + 1)
     /\ Requests(calls') <= 1
     /\ (Len(ingest') < Len(ingest) \/ Pending' < Pending) =>
           (Len(ingest') <= Len(ingest) /\ Pending' <= Pending /\ reading' = reading)
    ]_allVars

C19_Witness ==
  /\ errorMessage = "http" /\ ~isProcessing
  /\ Pending = 0 /\ ingest = <<>> /\ reading = NoFile
  /\ calls = <<Call("POST backend/process", session.accessToken, None)>>

\* C20: every request the authenticated fetch helper sends to the backend
\* carries the accessToken of the current session; without a session or
\* without an accessToken nothing is sent to the backend and the caller
\* gets a 401: the analysis shows the helper's authentication error, and
\* the ingest and the process routes answer 401.
BackendOps == {"POST backend/ingest", "POST backend/process"}

RouteOps == {"respond /api/ingest", "respond /api/sessions/process"}

C20_BearerOrUnauthorized ==
  [][/\ \A k \in 1..Len(calls') :
          calls'[k].op \in BackendOps =>
            (calls'[k].arg = session.accessToken /\ calls'[k].arg # None)
     /\ Unauthenticated =>
          /\ \A k \in 1..Len(calls') :
                /\ calls'[k].op \notin BackendOps
                /\ calls'[k].op \in RouteOps => calls'[k].arg = 401
          /\ Pending' < Pending => errorMessage' = "unauthenticated"
    ]_allVars

\* C26: at most one ingestion is under way: a file being read or a request
\* to /api/ingest in flight, never two, and only while the upload state is
\* validating or uploading, in which no file is accepted.
C26_OneIngestionInFlight ==
  /\ Len(ingest) + (IF reading # NoFile THEN 1 ELSE 0) <= 1
  /\ reading # NoFile => uploadState = "validating"
  /\ ingest # <<>> => uploadState = "uploading"

C26_Witness ==
  /\ UploaderShown /\ uploadState = "uploading"
  /\ Len(ingest) = 1 /\ reading = NoFile
  /\ nextUuid > 1

\* C27: onFileLoaded is called only by the step in which the ingestion
\* request is answered with success, once, with the array that was read
\* and the uuid of the answer; a settling request that failed calls
\* nothing and leaves the upload state error, and no state but success's
\* step stores events.
LoadedCalls(cs) == {k \in 1..Len(cs) : cs[k].op = "onFileLoaded"}

IngestSucceeds ==
  /\ ~Unauthenticated
  /\ \E reach \in {"answered"}, backend \in {200} : IngestSettle(reach, backend)

C27_LoadedOnlyOnSuccess ==
  [][/\ LoadedCalls(calls') # {} =>
          /\ IngestSucceeds
          /\ Cardinality(LoadedCalls(calls')) = 1
          /\ events' = Head(ingest) /\ events' # <<>>
          /\ sessionUuid' = nextUuid
          /\ \A k \in LoadedCalls(calls') : calls'[k].arg = nextUuid
     /\ (Len(ingest') < Len(ingest) /\ ~IngestSucceeds) =>
          /\ LoadedCalls(calls') = {}
          /\ uploadState' = "error"
          /\ events' = events /\ sessionUuid' = sessionUuid
     /\ uploadState' = "success" => LoadedCalls(calls') # {}
     /\ (events' # events /\ events' # <<>>) => LoadedCalls(calls') # {}
    ]_allVars

C27_Witness ==
  /\ events # <<>> /\ sessionUuid = 1 /\ nextUuid = 2
  /\ ingest = <<>>
  /\ LoadedCalls(calls) # {}
  /\ calls[Len(calls)] = Call("onFileLoaded", 1, None)

\* C28: while an engine instance exists, the multiplier the control surface
\* shows is the multiplier in effect on the instance in use, a newly
\* constructed instance running at 1x.
C28_SpeedShownIsEngineSpeed ==
  HasEngine => speed = engines[playerInstance].speed

\* ============================================================ the layout
\* updateDimensions of the player: the scale that fits the recording's
\* viewport into the wrapper, and the margins that centre it.  Sizes are
\* whole pixels; the scale and the margins are exact fractions.

\* clientWidth and clientHeight the wrapper element can have.
WrapperWidths == {0, 400, 800, 1600}

WrapperHeights == {0, 450, 900}

\* width and height of the recording's meta event; 0 when it has none.
MetaWidths == {0, 1600}

MetaHeights == {0, 900}

\* metaEvent?.data?.width || 1024 and metaEvent?.data?.height || 576.
VideoW(metaWidth) == IF metaWidth = 0 THEN 1024 ELSE metaWidth

VideoH(metaHeight) == IF metaHeight = 0 THEN 576 ELSE metaHeight

FracLeq(a, b) == a.num * b.den <= b.num * a.den

FracMin(a, b) == IF FracLeq(a, b) THEN a ELSE b

FracMax(a, b) == IF FracLeq(a, b) THEN b ELSE a

\* (available - size * scale) / 2
Margin(available, size, scale) ==
  Frac(available * scale.den - size * scale.num, 2 * scale.den)

\* Math.max in the place of Math.min.
FitScaleMax(availableW, availableH, videoW, videoH) ==
  FracMax(Frac(availableW, videoW), Frac(availableH, videoH))

\* Math.min(availableW / videoW, availableH / videoH)
FitScale(availableW, availableH, videoW, videoH) ==
  FracMin(Frac(availableW, videoW), Frac(availableH, videoH))

\* The object updateDimensions passes to setPlayerState.
Dimensions(w, v) ==
  LET scale == FitScale(w.clientWidth, w.clientHeight, v.videoW, v.videoH)
  IN [width |-> v.videoW,
      height |-> v.videoH,
      scale |-> scale,
      marginLeft |-> Margin(w.clientWidth, v.videoW, scale),
      marginTop |-> Margin(w.clientHeight, v.videoH, scale)]

\* The style of the scaled element: one transform scale(s) from the top
\* left corner, which scales both axes by s, placed at left and top.
ScaledSurface ==
  [width |-> playerState.width,
   height |-> playerState.height,
   scaleX |-> playerState.scale,
   scaleY |-> playerState.scale,
   left |-> playerState.marginLeft,
   top |-> playerState.marginTop]

notLayout == <<vars, pageOnly, authOnly, annotations, psychometrics,
               narrative, intentAnalysis>>

\* The initialisation effect reads the viewport of the recording.
LayoutLoad(metaWidth, metaHeight) ==
  /\ video' = [videoW |-> VideoW(metaWidth), videoH |-> VideoH(metaHeight)]
  /\ UNCHANGED <<wrapper, playerState>>
  /\ UNCHANGED notLayout

\* The wrapper element changes size.
WrapperResized(w, h) ==
  /\ wrapper # [clientWidth |-> w, clientHeight |-> h]
  /\ wrapper' = [clientWidth |-> w, clientHeight |-> h]
  /\ UNCHANGED <<video, playerState>>
  /\ UNCHANGED notLayout

\* updateDimensions, called by the ResizeObserver and by the 100 ms
\* timeout of the effect that read the viewport.
LayoutUpdate ==
  /\ video.videoW > 0
  /\ playerState' = Dimensions(wrapper, video)
  /\ UNCHANGED <<wrapper, video>>
  /\ UNCHANGED notLayout

LayoutNext ==
  \/ \E mw \in MetaWidths, mh \in MetaHeights : LayoutLoad(mw, mh)
  \/ \E w \in WrapperWidths, h \in WrapperHeights : WrapperResized(w, h)
  \/ LayoutUpdate

LayoutSpec == Init /\ [][LayoutNext]_allVars

\* scale * size, as a fraction
Scaled(size, scale) == Frac(size * scale.num, scale.den)

\* a + a + b = c
TwiceAPlusBIs(a, b, c) ==
  (2 * a.num * b.den + b.num * a.den) * c.den = c.num * a.den * b.den

\* The layout stored for a wrapper and a viewport is the fitting one.
Fitted ==
  LET s == playerState.scale
      cw == Whole(wrapper.clientWidth)
      ch == Whole(wrapper.clientHeight)
      sw == Scaled(video.videoW, s)
      sh == Scaled(video.videoH, s)
  IN /\ playerState.width = video.videoW
     /\ playerState.height = video.videoH
     /\ FracLeq(sw, cw) /\ FracLeq(sh, ch)
     /\ sw = cw \/ sh = ch
     /\ ScaledSurface.scaleX = s /\ ScaledSurface.scaleY = s
     /\ TwiceAPlusBIs(ScaledSurface.left, sw, cw)
     /\ TwiceAPlusBIs(ScaledSurface.top, sh, ch)
     /\ (wrapper = [clientWidth |-> 800, clientHeight |-> 450]
          /\ video = [videoW |-> 1600, videoH |-> 900])
         => /\ s = [num |-> 1, den |-> 2]
            /\ ScaledSurface.left = Whole(0)
            /\ ScaledSurface.top = Whole(0)

\* C22: every run of updateDimensions stores the scale
\* min(container width / content width, container height / content height),
\* which scales both axes, and the offsets (container - scaled content) / 2;
\* for 800x450 and 1600x900 the scale is 1/2 and both offsets are 0.
C22_FitScaleAndCentre == [][LayoutUpdate => Fitted']_allVars

\* The example of the claim, laid out.
C22_Witness ==
  /\ wrapper = [clientWidth |-> 800, clientHeight |-> 450]
  /\ video = [videoW |-> 1600, videoH |-> 900]
  /\ playerState = [width |-> 1600, height |-> 900,
                    scale |-> [num |-> 1, den |-> 2],
                    marginLeft |-> Whole(0), marginTop |-> Whole(0)]

\* ====================================================== the annotations
\* The side panel and the on-video overlay, each a filter of the annotation
\* list by the distance of the timestamp to the cursor, in milliseconds.
\* Two annotations with the same timestamp and the same presence of a
\* bounding box are filtered alike, so the list is kept as a set.

\* The annotations an analysis can answer with.
AnnotationSamples ==
  [timestamp : {5000, 7000}, boundingBox : BOOLEAN]

\* The times the player publishes.
CursorSamples ==
  {0, 3500, 3501, 4000, 4001, 5000, 5999, 6000, 6400, 6499, 6500, 8000}

\* The recording loaded into the page: timestamps of its first and last
\* event.
PanelRecording == <<0, 8000>>

\* InsightsPanel: activeInsights.
ActiveInsights(list, t) ==
  {i \in list : Abs(i.timestamp - t) < 1500}

\* DashboardPage: activeOverlays, with the overlay window of the panel.
ActiveOverlaysPanelWindow(list, t) ==
  {i \in list : Abs(i.timestamp - t) < 1500 /\ i.boundingBox}

\* DashboardPage: activeOverlays.
ActiveOverlays(list, t) ==
  {i \in list : Abs(i.timestamp - t) < 1000 /\ i.boundingBox}

\* VideoPlayer: overlays.map(insight => insight.boundingBox && <div/>).
RenderedOverlays(overlays) ==
  {i \in overlays : i.boundingBox}

\* What is on screen.
SidePanel == ActiveInsights(annotations, currentTime)

Overlay == RenderedOverlays(ActiveOverlays(annotations, currentTime))

notPanel == <<playerOnly, pageOnly, authOnly, psychometrics, narrative,
              intentAnalysis, wrapper, video, playerState>>

\* A recording is loaded: handleFileLoaded stores it and empties the list.
PanelLoad ==
  /\ events = <<>>
  /\ events' = PanelRecording
  /\ annotations' = {}
  /\ calls' = <<Call("onFileLoaded", 1, None)>>
  /\ UNCHANGED currentTime
  /\ UNCHANGED notPanel

\* An analysis answers with a list: setInsights(data.insights).
InsightsAnswer(list) ==
  /\ events # <<>>
  /\ annotations' = list
  /\ calls' = <<Call("setInsights", Cardinality(list), None)>>
  /\ UNCHANGED <<events, currentTime>>
  /\ UNCHANGED notPanel

\* onTimeUpdate={setCurrentTime}: the player publishes a time of the
\* recording.
PanelTimeUpdate(t) ==
  /\ events # <<>>
  /\ t \in 0..TotalTime(events)
  /\ t # currentTime
  /\ currentTime' = t
  /\ calls' = <<Call("onTimeUpdate", t, None)>>
  /\ UNCHANGED <<events, annotations>>
  /\ UNCHANGED notPanel

\* resetSession: back to the upload screen.
PanelReset ==
  /\ events # <<>>
  /\ events' = <<>>
  /\ currentTime' = 0
  /\ annotations' = {}
  /\ calls' = <<Call("setCurrentTime", 0, None)>>
  /\ UNCHANGED notPanel

PanelNext ==
  \/ PanelLoad
  \/ \E list \in SUBSET AnnotationSamples : InsightsAnswer(list)
  \/ \E t \in CursorSamples : PanelTimeUpdate(t)
  \/ PanelReset

PanelSpec == Init /\ [][PanelNext]_allVars

ScoreSamples == {0, 29, 30, 35, 40, 70, 71, 75, 80, 81, 100}

\* SemanticDiagnostics: getProgressColor, getTextColor, getScoreLabel.
DiagnosticsProgressColor(score) ==
  IF score < 30 THEN "bg-green-500"
  ELSE IF score <= 70 THEN "bg-yellow-500"
  ELSE "bg-red-500"

DiagnosticsTextColor(score) ==
  IF score < 30 THEN "text-green-400"
  ELSE IF score <= 70 THEN "text-yellow-400"
  ELSE "text-red-400"

DiagnosticsScoreLabel(score) ==
  IF score < 30 THEN "Baixo"
  ELSE IF score <= 70 THEN "Medio"
  ELSE "Alto"

\* SemanticSummary: getProgressColor, getTextColor, getScoreLabel.
SummaryProgressColor(score) ==
  IF score < 30 THEN "bg-green-500"
  ELSE IF score >= 40 /\ score <= 70 THEN "bg-yellow-500"
  ELSE IF score > 80 THEN "bg-red-500"
  ELSE "bg-yellow-500"

SummaryTextColor(score) ==
  IF score < 30 THEN "text-green-400"
  ELSE IF score >= 40 /\ score <= 70 THEN "text-yellow-400"
  ELSE IF score > 80 THEN "text-red-400"
  ELSE "text-yellow-400"

SummaryScoreLabel(score) ==
  IF score < 30 THEN "Baixo"
  ELSE IF score >= 40 /\ score <= 70 THEN "Medio"
  ELSE IF score > 80 THEN "Alto"
  ELSE "Medio"

\* What each component shows for its two scores: frustration, and
\* confusion as the cognitive load.
SemanticDiagnostics(p) ==
  [frustration |-> [label |-> DiagnosticsScoreLabel(p.frustration_score),
                    text |-> DiagnosticsTextColor(p.frustration_score),
                    bar |-> DiagnosticsProgressColor(p.frustration_score)],
   load |-> [label |-> DiagnosticsScoreLabel(p.confusion_score),
             text |-> DiagnosticsTextColor(p.confusion_score),
             bar |-> DiagnosticsProgressColor(p.confusion_score)]]

SemanticSummary(p) ==
  [frustration |-> [label |-> SummaryScoreLabel(p.frustration_score),
                    text |-> SummaryTextColor(p.frustration_score),
                    bar |-> SummaryProgressColor(p.frustration_score)],
   load |-> [label |-> SummaryScoreLabel(p.confusion_score),
             text |-> SummaryTextColor(p.confusion_score),
             bar |-> SummaryProgressColor(p.confusion_score)]]

\* InsightsPanel: which of the two summaries are rendered.
DiagnosticsRendered == narrative /\ psychometrics.present /\ intentAnalysis

SummaryRendered == narrative /\ psychometrics.present

notScores == <<vars, pageOnly, authOnly, annotations, wrapper, video,
               playerState>>

\* An analysis answers: each of narrative, psychometrics and
\* intent_analysis is stored when the answer carries it.
AnalysisData(hasNarrative, hasScores, f, c, hasIntent) ==
  /\ narrative' = (narrative \/ hasNarrative)
  /\ psychometrics' =
       IF hasScores
       THEN [present |-> TRUE, frustration_score |-> f, confusion_score |-> c]
       ELSE psychometrics
  /\ intentAnalysis' = (intentAnalysis \/ hasIntent)
  /\ UNCHANGED notScores

\* resetSession and handleFileLoaded clear the three.
ScoresCleared ==
  /\ narrative \/ psychometrics.present \/ intentAnalysis
  /\ narrative' = FALSE
  /\ psychometrics' = NoPsychometrics
  /\ intentAnalysis' = FALSE
  /\ UNCHANGED notScores

ScoreNext ==
  \/ \E hasNarrative \in BOOLEAN, hasScores \in BOOLEAN, hasIntent \in BOOLEAN,
        f \in ScoreSamples, c \in ScoreSamples :
       AnalysisData(hasNarrative, hasScores, f, c, hasIntent)
  \/ ScoresCleared

ScoreSpec == Init /\ [][ScoreNext]_allVars

\* C30: whenever both summaries are rendered, they show the same level and
\* the same colours for the frustration score and for the cognitive load.
C30_SummariesAgree ==
  (DiagnosticsRendered /\ SummaryRendered)
    => SemanticDiagnostics(psychometrics) = SemanticSummary(psychometrics)

\* ======================================================= authentication
\* The NextAuth callbacks, the route protection and authenticatedFetch with
\* its throwOnError option.  Time is counted in token lifetimes: a token
\* issued at time t expires at t + 1 and is named t + 1.

\* What the token endpoint does with a refresh request: it grants a new
\* access token, grants one together with a new refresh token, rejects
\* the request, or cannot be reached.
RefreshOutcomes == {"granted", "rotated", "rejected", "network"}

\* callbacks.jwt at the initial login (account && user): the token of a
\* new sign-in is built from the account.
JwtLogin(hasRefresh, now) ==
  [present |-> TRUE,
   accessToken |-> now + 1,
   refreshToken |-> IF hasRefresh THEN now + 1 ELSE 0,
   expiresAt |-> now + 1,
   error |-> ""]

\* callbacks.jwt on a later call: the token is returned as it is until it
\* expires; then it is refreshed, the other fields being copied (...token),
\* or it is returned with the error flag.
JwtCallback(token, now, outcome) ==
  IF now < token.expiresAt THEN token
  ELSE IF token.refreshToken # 0
  THEN IF outcome \in {"granted", "rotated"}
       THEN [token EXCEPT !.accessToken = now + 1,
                          !.refreshToken =
                             IF outcome = "rotated" THEN now + 1 ELSE @,
                          !.expiresAt = now + 1]
       ELSE [token EXCEPT !.error = "RefreshAccessTokenError"]
  ELSE [token EXCEPT !.error = "RefreshAccessTokenError"]

\* callbacks.session: the session of a signed-in user carries the two
\* tokens and the error of the JWT.
SessionCallback(token) ==
  [present |-> token.present,
   accessToken |-> token.accessToken,
   refreshToken |-> token.refreshToken,
   error |-> token.error]

\* auth(): the JWT after callbacks.jwt, when there is one.
Refreshed(outcome) ==
  IF jwt.present THEN JwtCallback(jwt, clock, outcome) ELSE jwt

\* ------------------------------------------------------ route protection
\* A path is the sequence of the pieces of its text after the leading "/",
\* cut so that every alternative of the matcher is a sequence of pieces:
\* "/authors" is <<"auth", "ors">>, "/auth/signin" is
\* <<"auth", "/", "signin">>, "/" is <<>>.
PathSamples ==
  { <<>>,
    <<"api", "/", "ingest">>,
    <<"api", "/", "auth", "/", "session">>,
    <<"api", "/", "auth", "/", "callback", "/", "janus">>,
    <<"auth", "/", "signin">>,
    <<"auth", "ors">>,
    <<"_next", "/", "static", "/", "chunk.js">>,
    <<"_next", "/", "image">>,
    <<"_next", "/", "data", "/", "index.json">>,
    <<"favicon.ico">>,
    <<"logo.png">> }

QuerySamples == {"", "?tab=1"}

StartsWith(path, prefix) ==
  /\ Len(path) >= Len(prefix)
  /\ SubSeq(path, 1, Len(prefix)) = prefix

\* The alternatives of the negative lookahead of config.matcher.
MatcherExcluded ==
  { <<"api", "/", "auth">>, <<"auth">>, <<"_next", "/", "static">>,
    <<"_next", "/", "image">>, <<"favicon.ico">>, <<"public">> }

\* "/((?!api/auth|auth|_next/static|_next/image|favicon.ico|public).*)"
MatcherMatches(path) ==
  \A prefix \in MatcherExcluded : ~StartsWith(path, prefix)

SignIn == <<"auth", "/", "signin">>

NoCallback == [path |-> <<>>, query |-> ""]

\* What the protection answers: "next" lets the request through, "signin"
\* redirects to /auth/signin?callbackUrl=..., "home" redirects to "/".
Decision(path, query, auth, by, matched, outcome) ==
  [path |-> path, query |-> query, auth |-> auth, by |-> by,
   matched |-> matched, outcome |-> outcome,
   callbackUrl |-> IF outcome = "signin"
                   THEN [path |-> path, query |-> query] ELSE NoCallback]

\* proxy.ts: the handler wrapped by auth(), run on the matched paths.
Proxy(path, query, auth) ==
  IF ~MatcherMatches(path)
  THEN Decision(path, query, auth, "proxy", FALSE, "next")
  ELSE IF StartsWith(path, <<"api", "/", "auth", "/", "callback">>)
  THEN Decision(path, query, auth, "proxy", TRUE, "next")
  ELSE IF ~auth
  THEN Decision(path, query, auth, "proxy", TRUE, "signin")
  ELSE IF path = SignIn /\ auth
  THEN Decision(path, query, auth, "proxy", TRUE, "home")
  ELSE Decision(path, query, auth, "proxy", TRUE, "next")

\* middleware.ts: getToken, run on the matched paths.
Middleware(path, query, token) ==
  IF ~MatcherMatches(path)
  THEN Decision(path, query, token, "middleware", FALSE, "next")
  ELSE IF ~token
  THEN Decision(path, query, token, "middleware", TRUE, "signin")
  ELSE Decision(path, query, token, "middleware", TRUE, "next")

\* --------------------------------------------- authenticatedFetch, whole
\* The body of the backend's response.
BodySamples == {"json", "text", "empty"}

\* response.json(): it throws when the body has been read already or is
\* not JSON, and it leaves the body read.
ResponseJson(body, bodyUsed) ==
  [threw |-> bodyUsed \/ body # "json", bodyUsed |-> TRUE]

Fetched(throwOnError, backend, body, thrown, status, message, data) ==
  [called |-> TRUE, throwOnError |-> throwOnError, backend |-> backend,
   body |-> body, thrown |-> thrown, status |-> status, message |-> message,
   data |-> data]

\* authenticatedFetch(endpoint, {throwOnError}): what it throws or
\* returns.  On a response that is not ok the body is read for the message
\* of the error; the body is then read again for the data to return.
AuthenticatedFetchWith(sess, throwOnError, backend, body) ==
  IF ~sess.present \/ sess.accessToken = 0
  THEN Fetched(throwOnError, backend, body, TRUE, 401, "unauthenticated", FALSE)
  ELSE IF backend = 0
  THEN Fetched(throwOnError, backend, body, TRUE, 0, "network", FALSE)
  ELSE LET first == IF Ok(backend) THEN [threw |-> FALSE, bodyUsed |-> FALSE]
                    ELSE ResponseJson(body, FALSE)
           data == ResponseJson(body, first.bodyUsed)
       IN IF ~Ok(backend) /\ throwOnError
          THEN Fetched(throwOnError, backend, body, TRUE, backend, "http", FALSE)
          ELSE IF data.threw
          THEN Fetched(throwOnError, backend, body, TRUE, 0, "network", FALSE)
          ELSE Fetched(throwOnError, backend, body, FALSE, backend, "", TRUE)

\* ---------------------------------------------------------------- steps
notAuth == <<vars, pageOnly, viewOnly>>

\* A user signs in.
SignedIn(hasRefresh) ==
  /\ ~jwt.present
  /\ jwt' = JwtLogin(hasRefresh, clock)
  /\ UNCHANGED <<clock, proxied, fetched>>
  /\ UNCHANGED notAuth

\* A token lifetime passes.
TimePasses ==
  /\ clock < MaxClock
  /\ clock' = clock + 1
  /\ UNCHANGED <<jwt, proxied, fetched>>
  /\ UNCHANGED notAuth

\* A request reaches proxy.ts: auth() runs the callbacks, the handler
\* decides on req.auth.
ProxyRequest(path, query, outcome) ==
  /\ jwt' = Refreshed(outcome)
  /\ proxied' = Proxy(path, query, SessionCallback(jwt').present)
  /\ fetched' = NoFetch
  /\ UNCHANGED clock
  /\ UNCHANGED notAuth

\* A request reaches middleware.ts: getToken reads the cookie.
MiddlewareRequest(path, query) ==
  /\ proxied' = Middleware(path, query, jwt.present)
  /\ fetched' = NoFetch
  /\ UNCHANGED <<jwt, clock>>
  /\ UNCHANGED notAuth

\* Server code calls authenticatedFetch: getSession runs the callbacks.
FetchCall(throwOnError, backend, body, outcome) ==
  /\ jwt' = Refreshed(outcome)
  /\ fetched' = AuthenticatedFetchWith(SessionCallback(jwt'), throwOnError,
                                       backend, body)
  /\ proxied' = NoRequest
  /\ UNCHANGED clock
  /\ UNCHANGED notAuth

AuthNext ==
  \/ \E hasRefresh \in BOOLEAN : SignedIn(hasRefresh)
  \/ TimePasses
  \/ \E path \in PathSamples, query \in QuerySamples,
        outcome \in RefreshOutcomes : ProxyRequest(path, query, outcome)
  \/ \E path \in PathSamples, query \in QuerySamples :
       MiddlewareRequest(path, query)
  \/ \E throwOnError \in BOOLEAN, backend \in BackendAnswers,
        body \in BodySamples, outcome \in RefreshOutcomes :
       FetchCall(throwOnError, backend, body, outcome)

AuthSpec == Init /\ [][AuthNext]_allVars

\* --------------------------------------------------------------- claims
Flag == "RefreshAccessTokenError"

Expired == jwt.present /\ clock >= jwt.expiresAt

\* The dashboard and the routes behind the protection.
Protected(path) ==
  /\ MatcherMatches(path)
  /\ ~StartsWith(path, <<"api", "/", "auth", "/", "callback">>)

\* C21: when a request for a protected page finds the access token expired
\* and the refresh fails (rejected, network error, or no refresh token),
\* the session carries RefreshAccessTokenError and the user is sent to
\* sign in again.
C21_RefreshFailurePrompts ==
  [][\A path \in PathSamples, query \in QuerySamples,
        outcome \in RefreshOutcomes :
       ( /\ ProxyRequest(path, query, outcome)
         /\ Protected(path)
         /\ Expired
         /\ jwt.refreshToken = 0 \/ outcome \in {"rejected", "network"} )
       => /\ SessionCallback(jwt').error = Flag
          /\ proxied'.outcome = "signin"]_allVars

\* C29: a successful refresh of an expired access token leaves neither the
\* token nor the session with RefreshAccessTokenError.
C29_RefreshClearsFlag ==
  [][( /\ Expired
       /\ jwt'.present
       /\ jwt'.expiresAt > jwt.expiresAt )
     => /\ jwt'.error # Flag
        /\ SessionCallback(jwt').error # Flag]_allVars

\* C25: on a backend response that is not 2xx, authenticatedFetch throws
\* the response's status when throwOnError is true, and throws nothing and
\* returns the parsed body when throwOnError is false.
C25_ThrowOnError ==
  ( /\ fetched.called
    /\ fetched.message # "unauthenticated"
    /\ fetched.backend # 0 /\ ~Ok(fetched.backend)
    /\ fetched.body = "json" )
  => IF fetched.throwOnError
     THEN fetched.thrown /\ fetched.status = fetched.backend
     ELSE ~fetched.thrown /\ fetched.data

\* The routes the protection is said to leave alone: /api/auth/*, /auth/*,
\* /_next/* and static assets.
UnderSegment(path, prefix) ==
  /\ StartsWith(path, prefix)
  /\ Len(path) = Len(prefix) \/ path[Len(prefix) + 1] = "/"

StaticAssets == { <<"favicon.ico">>, <<"logo.png">> }

Public(path) ==
  \/ UnderSegment(path, <<"api", "/", "auth">>)
  \/ UnderSegment(path, <<"auth">>)
  \/ UnderSegment(path, <<"_next">>)
  \/ path \in StaticAssets

\* C24: a request without an authenticated session to a route that is not
\* public is redirected to /auth/signin with callbackUrl = path + query; a
\* request to a public route is never redirected to sign-in.
C24_ProtectedRedirectedPublicNot ==
  proxied.by # ""
  => /\ (~proxied.auth /\ ~Public(proxied.path))
          => /\ proxied.outcome = "signin"
             /\ proxied.callbackUrl =
                  [path |-> proxied.path, query |-> proxied.query]
     /\ Public(proxied.path) => proxied.outcome # "signin"

====
